---- MODULE Spec2Model ----
(***************************************************************************)
(* Jejo Task Manager: the task store (app/taskmanager.py, class            *)
(* TaskManager) driven by the menu loop of main.py.                         *)
(*                                                                         *)
(* Text that the code transforms (priority, filter values) is a sequence   *)
(* of one-character strings, so that str.lower() is computed character by  *)
(* character.  Text the code only stores (title, description) is a plain   *)
(* string.                                                                 *)
(***************************************************************************)
EXTENDS Integers, Sequences, FiniteSets, TLC

VARIABLES
    pc,            \* position of the process: "start", "menu", "crashed"
    tasks,         \* self.tasks: the in-memory list of task dicts
    file,          \* the backing file self.filename: [kind, data]
    msg,           \* the status line the last call printed
    removed_count, \* the count clear_completed printed (0 for the other calls)
    view,          \* the task rows the last call printed
    task_id,       \* the task_id the last call was given (0 when it takes none)
    arg,           \* the text the last call was given: add's priority as
                   \* typed, list's two filters, sort's sort_by
    write,         \* how the last call's save_tasks ended: "ok", "failed",
                   \* "none" when it did not save
    removedIds,    \* history: ids of the tasks removed so far
    faultsLeft     \* write failures the environment may still cause

vars == <<pc, tasks, file, msg, removed_count, view, task_id, arg, write,
         removedIds, faultsLeft>>

----------------------------------------------------------------------------
(* Bounds of the model *)

MaxId == 2

MaxWriteFailures == 1

----------------------------------------------------------------------------
(* Text *)

UpperChars == <<"A","B","C","D","E","F","G","H","I","J","K","L","M",
                "N","O","P","Q","R","S","T","U","V","W","X","Y","Z">>

LowerChars == <<"a","b","c","d","e","f","g","h","i","j","k","l","m",
                "n","o","p","q","r","s","t","u","v","w","x","y","z">>

lower_char(c) ==
    IF \E i \in 1..Len(UpperChars) : UpperChars[i] = c
    THEN LowerChars[CHOOSE i \in 1..Len(UpperChars) : UpperChars[i] = c]
    ELSE c

\* str.lower()
lower(s) == [i \in 1..Len(s) |-> lower_char(s[i])]

Str_high    == <<"h","i","g","h">>
Str_medium  == <<"m","e","d","i","u","m">>
Str_low     == <<"l","o","w">>
Str_HIGH    == <<"H","I","G","H">>
Str_Low     == <<"L","o","w">>
Str_urgent  == <<"u","r","g","e","n","t">>
Str_empty   == <<>>
Str_done    == <<"d","o","n","e">>
Str_pending == <<"p","e","n","d","i","n","g">>

\* An optional argument: None, or a value
None == <<>>

Some(v) == <<v>>

\* Python truthiness of an optional string: None and "" are falsy
truthy(opt) == opt # None /\ opt[1] # Str_empty

----------------------------------------------------------------------------
(* Inputs *)

Titles == {"t1", "t2"}

Descriptions == {"d"}

PriorityInputs == {Str_HIGH, Str_Low, Str_urgent, Str_empty}

IdInputs == 1..(MaxId + 1)

StatusFilters == {None, Some(Str_empty), Some(Str_done), Some(Str_pending)}

PriorityFilters == {None, Some(Str_HIGH), Some(Str_low)}

SortInputs == {"priority", "status", "title"}

----------------------------------------------------------------------------
(* The backing file *)

Range(s) == {s[i] : i \in 1..Len(s)}

json_bool(b) == IF b THEN "true" ELSE "false"

\* json.dump of one task dict: the keys in insertion order
json_object(t) ==
    << <<"id", t.id>>, <<"title", t.title>>, <<"description", t.description>>,
       <<"priority", t.priority>>, <<"completed", json_bool(t.completed)>> >>

\* json.dump(self.tasks, f, indent=2)
json_dump(ts) == [i \in 1..Len(ts) |-> json_object(ts[i])]

json_value(o, key) == (CHOOSE i \in 1..Len(o) : o[i][1] = key)

task_of_object(o) ==
    [id          |-> o[json_value(o, "id")][2],
     title       |-> o[json_value(o, "title")][2],
     description |-> o[json_value(o, "description")][2],
     priority    |-> o[json_value(o, "priority")][2],
     completed   |-> o[json_value(o, "completed")][2] = "true"]

\* json.load(f)
json_load(text) == [i \in 1..Len(text) |-> task_of_object(text[i])]

FileAbsent     == [kind |-> "absent", data |-> <<>>]

FileUnreadable == [kind |-> "unreadable", data |-> <<>>]

FileMalformed  == [kind |-> "malformed", data |-> <<>>]

FileOf(ts)     == [kind |-> "tasks", data |-> json_dump(ts)]

----------------------------------------------------------------------------
(* TaskManager: the pure parts of its methods *)

next_id_by_count(ts) == Len(ts) + 1

\* add_task: task_id = self.tasks[-1]['id'] + 1 if self.tasks else 1
next_id(ts) == IF ts # <<>> THEN ts[Len(ts)].id + 1 ELSE 1

normalize_without_fallback(priority) == lower(priority)

\* add_task: priority = priority.lower(); anything outside the three is "medium"
normalize_priority(priority) ==
    LET p == lower(priority)
    IN  IF p \notin {Str_high, Str_medium, Str_low} THEN Str_medium ELSE p

\* add_task: the list after the append
add_task(ts, title, description, priority) ==
    Append(ts, [id          |-> next_id(ts),
                title       |-> title,
                description |-> description,
                priority    |-> normalize_priority(priority),
                completed   |-> FALSE])

find_index_or_last(ts, id) ==
    IF \E i \in 1..Len(ts) : ts[i].id = id
    THEN CHOOSE i \in 1..Len(ts) :
            ts[i].id = id /\ \A j \in 1..(i - 1) : ts[j].id # id
    ELSE Len(ts)

\* the scan "for task in self.tasks: if task['id'] == task_id": the index of
\* the first task with that id, 0 when the loop ends without a match
find_index(ts, id) ==
    IF \E i \in 1..Len(ts) : ts[i].id = id
    THEN CHOOSE i \in 1..Len(ts) :
            ts[i].id = id /\ \A j \in 1..(i - 1) : ts[j].id # id
    ELSE 0

\* update_task: task["title"] = new_title
update_task(ts, i, new_title) == [ts EXCEPT ![i].title = new_title]

\* delete_task: del self.tasks[i]
delete_task(ts, i) == SubSeq(ts, 1, i - 1) \o SubSeq(ts, i + 1, Len(ts))

mark_toggle(ts, i) == [ts EXCEPT ![i].completed = ~ts[i].completed]

\* mark_complete: task["completed"] = True
mark_complete(ts, i) == [ts EXCEPT ![i].completed = TRUE]

IsPending(t) == ~t.completed

clear_first_completed(ts) ==
    IF \E i \in 1..Len(ts) : ts[i].completed
    THEN LET i == CHOOSE i \in 1..Len(ts) :
                     ts[i].completed /\ \A j \in 1..(i - 1) : ~ts[j].completed
         IN  SubSeq(ts, 1, i - 1) \o SubSeq(ts, i + 1, Len(ts))
    ELSE ts

\* clear_completed: [t for t in self.tasks if not t["completed"]]
clear_completed(ts) == SelectSeq(ts, IsPending)

\* list_tasks: the "if filter_status:" step
filter_by_status(ts, filter_status) ==
    IF truthy(filter_status)
    THEN LET is_completed == lower(filter_status[1]) = Str_done
             Match(t) == t.completed = is_completed
         IN  SelectSeq(ts, Match)
    ELSE ts

filter_priority_case_sensitive(ts, filter_priority) ==
    IF truthy(filter_priority)
    THEN LET Match(t) == t.priority = filter_priority[1]
         IN  SelectSeq(ts, Match)
    ELSE ts

\* list_tasks: the "if filter_priority:" step
filter_by_priority(ts, filter_priority) ==
    IF truthy(filter_priority)
    THEN LET Match(t) == t.priority = lower(filter_priority[1])
         IN  SelectSeq(ts, Match)
    ELSE ts

\* list_tasks: filtered_tasks
list_tasks(ts, filter_status, filter_priority) ==
    filter_by_priority(filter_by_status(ts, filter_status), filter_priority)

\* sort_tasks: priority_order = {"high": 0, "medium": 1, "low": 2}
priority_order == (Str_high :> 0) @@ (Str_medium :> 1) @@ (Str_low :> 2)

\* sort_tasks: the two key functions (False sorts before True)
key_priority(t) == priority_order[t.priority]

key_status(t) == IF t.completed THEN 1 ELSE 0

RECURSIVE insert_before_equal(_, _, _)
insert_before_equal(x, s, key) ==
    IF s = <<>> THEN <<x>>
    ELSE IF key[x] <= key[Head(s)] THEN <<x>> \o s
    ELSE <<Head(s)>> \o insert_before_equal(x, Tail(s), key)

\* list.sort(key=...): a stable sort; x goes behind every element whose key
\* is not greater than its own
RECURSIVE insert_stable(_, _, _)
insert_stable(x, s, key) ==
    IF s = <<>> THEN <<x>>
    ELSE IF key[x] < key[Head(s)] THEN <<x>> \o s
    ELSE <<Head(s)>> \o insert_stable(x, Tail(s), key)

RECURSIVE list_sort(_, _)
list_sort(s, key) ==
    IF s = <<>> THEN <<>>
    ELSE insert_stable(s[Len(s)], list_sort(SubSeq(s, 1, Len(s) - 1), key), key)

\* sort_tasks: sorted_tasks
sort_tasks(ts, sort_by) ==
    IF sort_by = "priority"
    THEN list_sort(ts, [t \in Range(ts) |-> key_priority(t)])
    ELSE IF sort_by = "status"
    THEN list_sort(ts, [t \in Range(ts) |-> key_status(t)])
    ELSE ts

----------------------------------------------------------------------------
(* The process: construction, then one call per menu choice *)

\* the ways one run of save_tasks can end: written; open() raised (the file
\* is left as it was); the write raised after open() truncated the file
WriteOutcomes ==
    IF faultsLeft > 0
    THEN {"ok", "open_failed", "write_failed"}
    ELSE {"ok"}

write_status(w) == IF w = "ok" THEN "ok" ELSE "failed"

\* save_tasks: the whole list is written over the file; any exception is
\* caught and reported
save_tasks(ts, w) ==
    /\ file' = CASE w = "ok"          -> FileOf(ts)
                 [] w = "open_failed" -> file
                 [] OTHER             -> FileMalformed
    /\ write' = write_status(w)
    /\ faultsLeft' = IF w = "ok" THEN faultsLeft ELSE faultsLeft - 1

\* a call that does not reach save_tasks
no_save == write' = "none" /\ UNCHANGED <<file, faultsLeft>>

\* what the call was given and what it printed
Printed(m, id, a, n, v) ==
    /\ msg' = m
    /\ task_id' = id
    /\ arg' = a
    /\ removed_count' = n
    /\ view' = v

\* __init__ and load_tasks, and main's "task_manager = TaskManager()" which
\* stands outside the loop's try: an exception other than JSONDecodeError
\* ends the process
LoadTasks ==
    /\ pc = "start"
    /\ tasks' = IF file.kind = "tasks" THEN json_load(file.data) ELSE <<>>
    /\ pc' = IF file.kind = "unreadable" THEN "crashed" ELSE "menu"
    /\ Printed(CASE file.kind = "malformed"  -> "error_reading"
                  [] file.kind = "unreadable" -> "traceback"
                  [] OTHER                    -> "loaded",
               0, <<>>, 0, <<>>)
    /\ no_save

\* main choice "1" (the priority typed is lowercased there) and add_task
AddTask ==
    /\ pc = "menu"
    /\ next_id(tasks) <= MaxId
    /\ \E title \in Titles, description \in Descriptions,
          priority \in PriorityInputs, w \in WriteOutcomes :
          /\ tasks' = add_task(tasks, title, description, lower(priority))
          /\ save_tasks(tasks', w)
          /\ Printed("added", 0, priority, 0, <<>>)
    /\ UNCHANGED pc

\* list_tasks
ListTasks ==
    /\ pc = "menu"
    /\ \E filter_status \in StatusFilters, filter_priority \in PriorityFilters :
          LET filtered_tasks == list_tasks(tasks, filter_status, filter_priority)
          IN  Printed(IF filtered_tasks = <<>> THEN "no_tasks" ELSE "listed",
                      0, <<filter_status, filter_priority>>, 0, filtered_tasks)
    /\ no_save
    /\ UNCHANGED <<pc, tasks>>

\* sort_tasks
SortTasks ==
    /\ pc = "menu"
    /\ \E sort_by \in SortInputs :
          Printed("sorted", 0, sort_by, 0, sort_tasks(tasks, sort_by))
    /\ no_save
    /\ UNCHANGED <<pc, tasks>>

\* update_task
UpdateTask ==
    /\ pc = "menu"
    /\ \E id \in IdInputs, new_title \in Titles, w \in WriteOutcomes :
          LET i == find_index(tasks, id)
          IN  IF i # 0
              THEN /\ tasks' = update_task(tasks, i, new_title)
                   /\ save_tasks(tasks', w)
                   /\ Printed("updated", id, <<>>, 0, <<>>)
              ELSE /\ w = "ok"
                   /\ Printed("not_found", id, <<>>, 0, <<>>)
                   /\ no_save
                   /\ UNCHANGED tasks
    /\ UNCHANGED pc

\* delete_task
DeleteTask ==
    /\ pc = "menu"
    /\ \E id \in IdInputs, w \in WriteOutcomes :
          LET i == find_index(tasks, id)
          IN  IF i # 0
              THEN /\ tasks' = delete_task(tasks, i)
                   /\ save_tasks(tasks', w)
                   /\ Printed("deleted", id, <<>>, 0, <<>>)
              ELSE /\ w = "ok"
                   /\ Printed("not_found", id, <<>>, 0, <<>>)
                   /\ no_save
                   /\ UNCHANGED tasks
    /\ UNCHANGED pc

\* mark_complete
MarkComplete ==
    /\ pc = "menu"
    /\ \E id \in IdInputs, w \in WriteOutcomes :
          LET i == find_index(tasks, id)
          IN  IF i # 0
              THEN /\ tasks' = mark_complete(tasks, i)
                   /\ save_tasks(tasks', w)
                   /\ Printed("completed", id, <<>>, 0, <<>>)
              ELSE /\ w = "ok"
                   /\ Printed("not_found", id, <<>>, 0, <<>>)
                   /\ no_save
                   /\ UNCHANGED tasks
    /\ UNCHANGED pc

ClearCompletedSaveFirst ==
    /\ pc = "menu"
    /\ \E w \in WriteOutcomes :
          /\ save_tasks(tasks, w)
          /\ tasks' = clear_completed(tasks)
          /\ Printed("removed", 0, <<>>, Len(tasks) - Len(tasks'), <<>>)
    /\ UNCHANGED pc

\* clear_completed
ClearCompleted ==
    /\ pc = "menu"
    /\ \E w \in WriteOutcomes :
          /\ tasks' = clear_completed(tasks)
          /\ save_tasks(tasks', w)
          /\ Printed("removed", 0, <<>>, Len(tasks) - Len(tasks'), <<>>)
    /\ UNCHANGED pc

----------------------------------------------------------------------------
(* Specifications *)

IdsOf(ts) == {ts[i].id : i \in 1..Len(ts)}

\* The history variable: the ids that left the store in this step join it
RecordRemoved == removedIds' = removedIds \cup (IdsOf(tasks) \ IdsOf(tasks'))

NoHistory == UNCHANGED removedIds

\* The store after construction when the file held no tasks: it was absent,
\* or it held invalid JSON
InitStore ==
    /\ pc = "menu"
    /\ tasks = <<>>
    /\ file \in {FileAbsent, FileMalformed}
    /\ msg = IF file.kind = "malformed" THEN "error_reading" ELSE "loaded"
    /\ removed_count = 0
    /\ view = <<>>
    /\ task_id = 0
    /\ arg = <<>>
    /\ write = "none"
    /\ removedIds = {}

\* Every write succeeds
Init == InitStore /\ faultsLeft = 0

Next ==
    \/ AddTask /\ NoHistory
    \/ ListTasks /\ NoHistory
    \/ SortTasks /\ NoHistory
    \/ UpdateTask /\ NoHistory
    \/ DeleteTask /\ NoHistory
    \/ MarkComplete /\ NoHistory
    \/ ClearCompleted /\ NoHistory

Spec == Init /\ [][Next]_vars

\* Writes may fail, MaxWriteFailures times
InitFaults == InitStore /\ faultsLeft = MaxWriteFailures

NextFaults ==
    \/ AddTask /\ NoHistory
    \/ UpdateTask /\ NoHistory
    \/ DeleteTask /\ NoHistory
    \/ MarkComplete /\ NoHistory
    \/ ClearCompleted /\ NoHistory

SpecFaults == InitFaults /\ [][NextFaults]_vars

\* The mutating calls, with the removed ids recorded
NextHistory ==
    \/ AddTask /\ RecordRemoved
    \/ UpdateTask /\ RecordRemoved
    \/ DeleteTask /\ RecordRemoved
    \/ MarkComplete /\ RecordRemoved
    \/ ClearCompleted /\ RecordRemoved

SpecHistory == Init /\ [][NextHistory]_vars

StoredTask(id, title, priority, completed) ==
    [id |-> id, title |-> title, description |-> "d",
     priority |-> priority, completed |-> completed]

\* The files the process can find at its start
InitialFiles ==
    {FileAbsent, FileUnreadable, FileMalformed,
     FileOf(<<StoredTask(1, "t1", Str_low, FALSE)>>),
     FileOf(<<StoredTask(1, "t1", Str_high, TRUE), StoredTask(2, "t2", Str_medium, FALSE)>>)}

\* The process before "task_manager = TaskManager()"
InitLoad ==
    /\ pc = "start"
    /\ tasks = <<>>
    /\ file \in InitialFiles
    /\ msg = "none"
    /\ removed_count = 0
    /\ view = <<>>
    /\ task_id = 0
    /\ arg = <<>>
    /\ write = "none"
    /\ removedIds = {}
    /\ faultsLeft = 0

NextLoad ==
    \/ LoadTasks /\ NoHistory
    \/ AddTask /\ NoHistory
    \/ UpdateTask /\ NoHistory
    \/ DeleteTask /\ NoHistory
    \/ MarkComplete /\ NoHistory
    \/ ClearCompleted /\ NoHistory

SpecLoad == InitLoad /\ [][NextLoad]_vars

----------------------------------------------------------------------------
(* Properties of the store *)

MutatingMessages == {"added", "updated", "deleted", "completed", "removed"}

IdCallMessages == {"updated", "deleted", "completed", "not_found"}

Count(x, s) == Cardinality({i \in 1..Len(s) : s[i] = x})

\* the place in the store of the task with that id
PlaceOf(ts, id) == CHOOSE i \in 1..Len(ts) : ts[i].id = id

\* C1: the id add gives a task differs from the id of every task that was
\* ever in the store before, those since removed by delete or clear_completed
\* included.
C1_IdNeverReused ==
    msg = "added" =>
        /\ tasks[Len(tasks)].id \notin removedIds
        /\ \A i \in 1..(Len(tasks) - 1) : tasks[i].id # tasks[Len(tasks)].id

\* C2: the stored ids are positive, pairwise distinct and strictly increasing
\* in store order, and the first add on an empty store assigns id 1.
C2_IdsIncreasing ==
    /\ \A i \in 1..Len(tasks) : tasks[i].id >= 1
    /\ \A i, j \in 1..Len(tasks) : i < j => tasks[i].id < tasks[j].id
    /\ (msg = "added" /\ Len(tasks) = 1) => tasks[1].id = 1

C2_Witness ==
    /\ msg = "added"
    /\ Len(tasks) = 2
    /\ tasks[1].completed

\* C3: when a mutating call has returned and its write did not fail, the file
\* holds exactly the in-memory list: the same tasks, fields and order.
C3_FileMirrorsStore ==
    (msg \in MutatingMessages /\ write = "ok") =>
        /\ file.kind = "tasks"
        /\ json_load(file.data) = tasks

\* a clear_completed that removed nothing, written after an earlier write failed
C3_Witness ==
    /\ msg = "removed"
    /\ removed_count = 0
    /\ write = "ok"
    /\ faultsLeft < MaxWriteFailures
    /\ tasks # <<>>
    /\ json_load(file.data) = tasks

\* C4: construction never fails: with the file absent, unreadable or holding
\* invalid JSON, load ends with an empty list and the process is at the menu.
C4_LoadNeverFails ==
    pc # "start" =>
        /\ pc = "menu"
        /\ (msg \in {"loaded", "error_reading"}
              /\ file.kind \in {"absent", "unreadable", "malformed"}) => tasks = <<>>

\* C5: update, delete and mark_complete given an id no stored task has
\* report "not found" and leave the list and the file as they were.
C5_NotFoundChangesNothing ==
    [][(msg' \in IdCallMessages /\ task_id' \notin IdsOf(tasks)) =>
           /\ msg' = "not_found"
           /\ tasks' = tasks
           /\ file' = file]_vars

\* not found, on a store that holds tasks and whose file is out of date
C5_Witness ==
    /\ msg = "not_found"
    /\ tasks # <<>>
    /\ file # FileOf(tasks)

\* C6: clear_completed removes exactly the completed tasks, keeps every
\* pending task as it is and in its relative order, and reports how many tasks
\* were completed; called again at once, it removes nothing and reports 0.
C6_ClearCompleted ==
    [][msg' = "removed" =>
           /\ \A i \in 1..Len(tasks) :
                 IF tasks[i].completed
                 THEN Count(tasks[i], tasks') = 0
                 ELSE Count(tasks[i], tasks') = 1
           /\ \A j \in 1..Len(tasks') : Count(tasks'[j], tasks) = 1
           /\ \A i, j \in 1..Len(tasks') :
                 i < j => PlaceOf(tasks, tasks'[i].id) < PlaceOf(tasks, tasks'[j].id)
           /\ removed_count' = Cardinality({i \in 1..Len(tasks) : tasks[i].completed})
           /\ msg = "removed" => (tasks' = tasks /\ removed_count' = 0)]_vars

\* one task removed, one kept
C6_Witness ==
    /\ msg = "removed"
    /\ removed_count = 1
    /\ Len(tasks) = 1

\* C7: completed is false when add creates the task; it only goes from false
\* to true, and only by mark_complete given that task's id; mark_complete on
\* a completed task succeeds and leaves the list as it was.
C7_CompletedOnlyRises ==
    [][/\ \A i \in 1..Len(tasks), j \in 1..Len(tasks') :
             tasks[i].id = tasks'[j].id =>
                 /\ tasks[i].completed => tasks'[j].completed
                 /\ (~tasks[i].completed /\ tasks'[j].completed) =>
                        (msg' = "completed" /\ task_id' = tasks[i].id)
       /\ msg' = "added" => ~tasks'[Len(tasks')].completed
       /\ (msg' = "completed" /\ \E i \in 1..Len(tasks) :
                                     tasks[i].id = task_id' /\ tasks[i].completed)
              => tasks' = tasks]_vars

\* mark_complete has just been given the id of a task that was completed before
C7_Witness ==
    /\ msg = "completed"
    /\ Len(tasks) = 2
    /\ tasks[1].completed /\ tasks[2].completed
    /\ task_id = tasks[2].id

\* what add stores for each priority typed
ExpectedPriority ==
    (Str_HIGH :> Str_high) @@ (Str_Low :> Str_low) @@
    (Str_urgent :> Str_medium) @@ (Str_empty :> Str_medium)

\* C8: every stored priority is one of high, medium, low: add stores the
\* lowercased priority, "medium" for a value outside the three (the empty
\* input included), and no other call changes a task's priority.
C8_PriorityNormalized ==
    /\ [](/\ \A i \in 1..Len(tasks) :
                tasks[i].priority \in {Str_high, Str_medium, Str_low}
          /\ msg = "added" => tasks[Len(tasks)].priority = ExpectedPriority[arg])
    /\ [][\A i \in 1..Len(tasks), j \in 1..Len(tasks') :
              tasks[i].id = tasks'[j].id => tasks'[j].priority = tasks[i].priority]_vars

\* "urgent" was typed and "medium" is stored
C8_Witness ==
    /\ msg = "added"
    /\ arg = Str_urgent
    /\ tasks[Len(tasks)].priority = Str_medium

\* high before medium before low
PriorityRank(t) ==
    CASE t.priority = Str_high   -> 1
      [] t.priority = Str_medium -> 2
      [] t.priority = Str_low    -> 3

\* pending before completed
StatusRank(t) == IF t.completed THEN 2 ELSE 1

SortRank(by, t) ==
    IF by = "priority" THEN PriorityRank(t)
    ELSE IF by = "status" THEN StatusRank(t)
    ELSE 0

\* C9: the sort view is a permutation of the stored tasks, ordered by the key
\* (high, medium, low; pending, completed), equal keys in store order, any
\* other sort_by in store order; the store and the file are left as they were.
C9_SortView ==
    /\ [](msg = "sorted" =>
            /\ Len(view) = Len(tasks)
            /\ \A i \in 1..Len(tasks) : Count(tasks[i], view) = Count(tasks[i], tasks)
            /\ \A i, j \in 1..Len(view) :
                  i < j =>
                     /\ SortRank(arg, view[i]) <= SortRank(arg, view[j])
                     /\ SortRank(arg, view[i]) = SortRank(arg, view[j]) =>
                            PlaceOf(tasks, view[i].id) < PlaceOf(tasks, view[j].id)
            /\ arg \notin {"priority", "status"} => view = tasks)
    /\ [][msg' = "sorted" => (tasks' = tasks /\ file' = file)]_vars

\* the view by priority differs from the store order
C9_Witness ==
    /\ msg = "sorted"
    /\ arg = "priority"
    /\ Len(tasks) = 2
    /\ view # tasks

\* the tasks a pair of filters asks for
Wanted(filters, t) ==
    /\ filters[1] = Some(Str_done) => t.completed
    /\ filters[1] = Some(Str_pending) => ~t.completed
    /\ filters[2] = Some(Str_HIGH) => t.priority = Str_high
    /\ filters[2] = Some(Str_low) => t.priority = Str_low

\* C10: list shows exactly the tasks, in store order, that satisfy every
\* filter given: done is completed, pending is not completed, the priority is
\* compared without regard to case, an absent filter restricts nothing; the
\* store is left as it was.
C10_ListFilters ==
    /\ [](msg \in {"listed", "no_tasks"} =>
            LET Match(t) == Wanted(arg, t)
            IN  view = SelectSeq(tasks, Match))
    /\ [][msg' \in {"listed", "no_tasks"} => (tasks' = tasks /\ file' = file)]_vars

\* both filters given, one task shown and one held back
C10_Witness ==
    /\ msg = "listed"
    /\ arg = <<Some(Str_done), Some(Str_HIGH)>>
    /\ Len(tasks) = 2
    /\ Len(view) = 1

====
